---- MODULE Spec2Model ----
(***************************************************************************)
(* Model of streamlit-example-1.py: a Streamlit front end for an Ollama    *)
(* server.  One action of the model is one run of the script, triggered by *)
(* one user interaction (Streamlit re-runs the script top to bottom on     *)
(* every widget event, single threaded).                                   *)
(*                                                                         *)
(* Representation.  A string is a sequence (of tokens, characters, bytes   *)
(* or code points); the empty string is << >>.  An optional value is a     *)
(* sequence of length at most one: None is << >> and a present value x is  *)
(* << x >>.                                                                *)
(***************************************************************************)
EXTENDS Integers, Sequences, FiniteSets, TLC

None == << >>

Some(x) == << x >>

\* ------------------------------------------------------------------------
\* Bounds
\* ------------------------------------------------------------------------
\* number of Client objects the session may construct
MaxClients == 6

\* chunks per stream in the streaming specification
MaxChunks == 3

\* bytes per uploaded text file in the document specification
MaxBytes == 2

\* pages per uploaded pdf in the document specification
MaxPages == 2

\* ------------------------------------------------------------------------
\* Environment: hosts, models, errors
\* ------------------------------------------------------------------------
DefaultHost == "http://localhost:11434"

DefaultModel == "llama3.2"

\* a host whose URL the client library refuses to parse (non numeric port)
MalformedHost == "http://gpu:port"

Hosts == {DefaultHost, "http://gpu:11434", MalformedHost}

Models == {DefaultModel, "phi4"}

\* str(e) of the exceptions the library raises; str(e) may be empty
ShowErrors == {<< >>, <<"model not found">>}

ClientError == <<"invalid port">>

StreamErrors == {<<"stream broke">>}

\* result of client.show(model): None = success, Some(e) = raises e
ShowResults == {None} \cup {Some(e) : e \in ShowErrors}

VARIABLES
    ollama_host,            \* st.session_state.ollama_host
    ollama_model,           \* st.session_state.ollama_model
    ollama_client,          \* st.session_state.ollama_client (option)
    connection_status,      \* st.session_state.connection_status (string)
    last_successful_config, \* st.session_state.last_successful_config (option)
    tab_selection,          \* the radio "Functions"
    uploaded_file,          \* the file_uploader widget's value (option)
    document_content,       \* read_document_content's result in the last run
    clients_created,        \* number of Client objects constructed so far
    run                     \* observation of the last script run

vars == <<ollama_host, ollama_model, ollama_client, connection_status,
          last_successful_config, tab_selection, uploaded_file,
          document_content, clients_created, run>>

session == <<ollama_host, ollama_model, ollama_client, connection_status,
             last_successful_config>>

\* ------------------------------------------------------------------------
\* Connection manager
\* ------------------------------------------------------------------------
\* Client(host=host): raises for a malformed host, otherwise a new object
ClientRaises(host) == host = MalformedHost

\* initialize_ollama_client without its try/except (a plausible slip)
initialize_ollama_client_nocatch(host, model, show) ==
    IF ClientRaises(host)
    THEN [success |-> FALSE, error |-> None, raised |-> TRUE,
          calls |-> <<[op |-> "Client", host |-> host]>>, made |-> 0]
    ELSE IF show = None
    THEN [success |-> TRUE, error |-> None, raised |-> FALSE,
          calls |-> <<[op |-> "Client", host |-> host],
                      [op |-> "show", host |-> host, model |-> model]>>,
          made |-> 1]
    ELSE [success |-> FALSE, error |-> None, raised |-> TRUE,
          calls |-> <<[op |-> "Client", host |-> host],
                      [op |-> "show", host |-> host, model |-> model]>>,
          made |-> 1]

\* initialize_ollama_client returning str(e) alone as the message
initialize_ollama_client_bare(host, model, show) ==
    IF ClientRaises(host)
    THEN [success |-> FALSE, error |-> Some(ClientError), raised |-> FALSE,
          calls |-> <<[op |-> "Client", host |-> host]>>, made |-> 0]
    ELSE IF show = None
    THEN [success |-> TRUE, error |-> None, raised |-> FALSE,
          calls |-> <<[op |-> "Client", host |-> host],
                      [op |-> "show", host |-> host, model |-> model]>>,
          made |-> 1]
    ELSE [success |-> FALSE, error |-> Some(show[1]), raised |-> FALSE,
          calls |-> <<[op |-> "Client", host |-> host],
                      [op |-> "show", host |-> host, model |-> model]>>,
          made |-> 1]

\* initialize_ollama_client(host, model) under the server behaviour `show`.
\* success/error are the returned pair, calls the library calls made, made
\* the number of Client objects constructed, raised whether an exception
\* leaves the function.
initialize_ollama_client(host, model, show) ==
    IF ClientRaises(host)
    THEN [success |-> FALSE,
          error |-> Some(<<"Unexpected error: ">> \o ClientError),
          raised |-> FALSE,
          calls |-> <<[op |-> "Client", host |-> host]>>, made |-> 0]
    ELSE IF show = None
    THEN [success |-> TRUE, error |-> None, raised |-> FALSE,
          calls |-> <<[op |-> "Client", host |-> host],
                      [op |-> "show", host |-> host, model |-> model]>>,
          made |-> 1]
    ELSE [success |-> FALSE,
          error |-> Some(<<"Unexpected error: ">> \o show[1]),
          raised |-> FALSE,
          calls |-> <<[op |-> "Client", host |-> host],
                      [op |-> "show", host |-> host, model |-> model]>>,
          made |-> 1]

\* update_connection that keeps the old client handle on failure
update_connection_keep(host, model, show, client, config, status, n) ==
    LET r == initialize_ollama_client(host, model, show) IN
    IF r.success
    THEN [client |-> Some([host |-> host, id |-> n + r.made + 1]),
          status |-> <<"Connected">>,
          config |-> Some([host |-> host, model |-> model]),
          success |-> TRUE, error |-> None, raised |-> FALSE,
          calls |-> r.calls \o <<[op |-> "Client", host |-> host]>>,
          created |-> n + r.made + 1]
    ELSE [client |-> client,
          status |-> <<"Connection Failed: ">> \o r.error[1],
          config |-> config,
          success |-> FALSE, error |-> r.error, raised |-> FALSE,
          calls |-> r.calls, created |-> n + r.made]

\* update_connection that keeps a handle it already holds
update_connection_reuse(host, model, show, client, config, status, n) ==
    LET r == initialize_ollama_client(host, model, show) IN
    IF r.success
    THEN [client |-> IF client = None
                     THEN Some([host |-> host, id |-> n + r.made + 1])
                     ELSE client,
          status |-> <<"Connected">>,
          config |-> Some([host |-> host, model |-> model]),
          success |-> TRUE, error |-> None, raised |-> FALSE,
          calls |-> r.calls \o <<[op |-> "Client", host |-> host]>>,
          created |-> n + r.made + 1]
    ELSE [client |-> None,
          status |-> <<"Connection Failed: ">> \o r.error[1],
          config |-> config,
          success |-> FALSE, error |-> r.error, raised |-> FALSE,
          calls |-> r.calls, created |-> n + r.made]

\* update_connection() with st.session_state.ollama_host = host and
\* ollama_model = model; client, config, status are the session's current
\* values and n the number of Client objects constructed so far.
update_connection(host, model, show, client, config, status, n) ==
    LET r == initialize_ollama_client(host, model, show) IN
    IF r.raised
    THEN [client |-> client, status |-> status, config |-> config,
          success |-> FALSE, error |-> None, raised |-> TRUE,
          calls |-> r.calls, created |-> n + r.made]
    ELSE IF r.success
    THEN [client |-> Some([host |-> host, id |-> n + r.made + 1]),
          status |-> <<"Connected">>,
          config |-> Some([host |-> host, model |-> model]),
          success |-> TRUE, error |-> None, raised |-> FALSE,
          calls |-> r.calls \o <<[op |-> "Client", host |-> host]>>,
          created |-> n + r.made + 1]
    ELSE [client |-> None,
          status |-> <<"Connection Failed: ">> \o r.error[1],
          config |-> config,
          success |-> FALSE, error |-> r.error, raised |-> FALSE,
          calls |-> r.calls, created |-> n + r.made]

\* ------------------------------------------------------------------------
\* Response streamer
\* ------------------------------------------------------------------------
\* A chunk either carries a response field (has = TRUE) or not.
NoResponse == [has |-> FALSE, response |-> << >>]

Resp(t) == [has |-> TRUE, response |-> t]

ChunkTexts == {<< >>, <<"H">>, <<"e", "l">>}

Chunks == {NoResponse} \cup {Resp(t) : t \in ChunkTexts}

RECURSIVE SeqsUpTo(_, _)
\* all sequences over S of length at most n
SeqsUpTo(S, n) ==
    IF n = 0 THEN {<< >>}
    ELSE LET R == SeqsUpTo(S, n - 1) IN
         R \cup {Append(r, x) : r \in {q \in R : Len(q) = n - 1}, x \in S}

\* A stream delivers its chunks, then ends (end = None) or raises
\* (end = Some(e)); opening the stream raising is chunks = << >>, end = Some(e).
StreamsUpTo(n) ==
    [chunks : SeqsUpTo(Chunks, n),
     end : {None} \cup {Some(e) : e \in StreamErrors}]

RECURSIVE consume_delta(_, _, _)
\* the loop surfacing each chunk's own text instead of the accumulator
consume_delta(chunks, full_response, shown) ==
    IF chunks = << >> THEN shown
    ELSE LET chunk == Head(chunks) IN
         IF chunk.has
         THEN consume_delta(Tail(chunks), full_response \o chunk.response,
                            Append(shown, chunk.response))
         ELSE consume_delta(Tail(chunks), full_response, shown)

RECURSIVE consume(_, _, _)
\* the for loop over the stream: full_response accumulates, shown is the
\* sequence of values passed to response_container.markdown
consume(chunks, full_response, shown) ==
    IF chunks = << >> THEN shown
    ELSE LET chunk == Head(chunks) IN
         IF chunk.has
         THEN consume(Tail(chunks), full_response \o chunk.response,
                      Append(shown, full_response \o chunk.response))
         ELSE consume(Tail(chunks), full_response, shown)

\* the result of a generate_ollama_response call that touches nothing
NoConnection(client, config, status, n) ==
    [client |-> client, status |-> status, config |-> config,
     success |-> FALSE, error |-> None, raised |-> FALSE,
     calls |-> << >>, created |-> n]

\* the generate request as sent: system is None when system_prompt is empty
GenerateCall(client, model, user_prompt, system_prompt) ==
    [op |-> "generate", host |-> client[1].host, client |-> client[1].id,
     model |-> model, prompt |-> user_prompt,
     system |-> IF system_prompt /= << >> THEN Some(system_prompt) ELSE None]

\* generate_ollama_response testing the prompt after the request was sent
generate_ollama_response_latecheck(user_prompt, system_prompt, stream, show, host, model, client, config, status, n) ==
    LET call == GenerateCall(client, model, user_prompt, system_prompt)
        shown == consume(stream.chunks, << >>, << >>)
    IN  IF stream.end /= None
        THEN LET c == update_connection(host, model, show, client, config,
                                        status, n)
             IN [conn |-> c, calls |-> <<call>> \o c.calls,
                 surfaced |-> shown,
                 reports |-> <<"error generating">>, reconnects |-> 1]
        ELSE IF user_prompt = << >>
        THEN [conn |-> NoConnection(client, config, status, n),
              calls |-> <<call>>, surfaced |-> << >>,
              reports |-> <<"warning enter a prompt">>, reconnects |-> 0]
        ELSE [conn |-> NoConnection(client, config, status, n),
              calls |-> <<call>>, surfaced |-> shown,
              reports |-> <<"debug information">>, reconnects |-> 0]

\* generate_ollama_response without the empty prompt check
generate_ollama_response_nocheck(user_prompt, system_prompt, stream, show, host, model, client, config, status, n) ==
    LET call == GenerateCall(client, model, user_prompt, system_prompt)
        shown == consume(stream.chunks, << >>, << >>)
    IN  IF stream.end = None
        THEN [conn |-> NoConnection(client, config, status, n),
              calls |-> <<call>>, surfaced |-> shown,
              reports |-> <<"debug information">>, reconnects |-> 0]
        ELSE LET c == update_connection(host, model, show, client, config,
                                        status, n)
             IN [conn |-> c, calls |-> <<call>> \o c.calls,
                 surfaced |-> shown,
                 reports |-> <<"error generating">>, reconnects |-> 1]

\* generate_ollama_response that does not reconnect after an error
generate_ollama_response_noreconnect(user_prompt, system_prompt, stream, show, host, model, client, config, status, n) ==
    IF user_prompt = << >>
    THEN [conn |-> NoConnection(client, config, status, n),
          calls |-> << >>, surfaced |-> << >>,
          reports |-> <<"warning enter a prompt">>, reconnects |-> 0]
    ELSE [conn |-> NoConnection(client, config, status, n),
          calls |-> <<GenerateCall(client, model, user_prompt, system_prompt)>>,
          surfaced |-> consume(stream.chunks, << >>, << >>),
          reports |-> IF stream.end = None THEN <<"debug information">>
                      ELSE <<"error generating">>,
          reconnects |-> 0]

\* generate_ollama_response that reconnects after every generation
generate_ollama_response_always(user_prompt, system_prompt, stream, show, host, model, client, config, status, n) ==
    IF user_prompt = << >>
    THEN [conn |-> NoConnection(client, config, status, n),
          calls |-> << >>, surfaced |-> << >>,
          reports |-> <<"warning enter a prompt">>, reconnects |-> 0]
    ELSE LET c == update_connection(host, model, show, client, config,
                                    status, n)
         IN [conn |-> c,
             calls |-> <<GenerateCall(client, model, user_prompt,
                                      system_prompt)>> \o c.calls,
             surfaced |-> consume(stream.chunks, << >>, << >>),
             reports |-> IF stream.end = None THEN <<"debug information">>
                         ELSE <<"error generating">>,
             reconnects |-> 1]

\* generate_ollama_response(user_prompt, system_prompt) when the server
\* answers the generate request with `stream` and a reconnect probe with
\* `show`; host, model, client, config, status are the session's values.
generate_ollama_response(user_prompt, system_prompt, stream, show, host, model, client, config, status, n) ==
    IF user_prompt = << >>
    THEN [conn |-> NoConnection(client, config, status, n),
          calls |-> << >>, surfaced |-> << >>,
          reports |-> <<"warning enter a prompt">>, reconnects |-> 0]
    ELSE LET call == GenerateCall(client, model, user_prompt, system_prompt)
             shown == consume(stream.chunks, << >>, << >>)
         IN  IF stream.end = None
             THEN [conn |-> NoConnection(client, config, status, n),
                   calls |-> <<call>>, surfaced |-> shown,
                   reports |-> <<"debug information">>, reconnects |-> 0]
             ELSE LET c == update_connection(host, model, show, client,
                                             config, status, n)
                  IN [conn |-> c, calls |-> <<call>> \o c.calls,
                      surfaced |-> shown,
                      reports |-> <<"error generating">>, reconnects |-> 1]

\* ------------------------------------------------------------------------
\* Document reader
\* ------------------------------------------------------------------------
\* str.lower() on the characters that occur in the modelled file names
Upper == {"T", "X", "P", "D", "F", "M"}

LowerChar(c) ==
    CASE c = "T" -> "t" [] c = "X" -> "x" [] c = "P" -> "p"
      [] c = "D" -> "d" [] c = "F" -> "f" [] c = "M" -> "m"
      [] OTHER -> c

lower(s) == [i \in 1..Len(s) |-> LowerChar(s[i])]

\* str.rfind for a single character, 1-based; 0 when absent
rfind(p, c) ==
    LET S == {i \in 1..Len(p) : p[i] = c} IN
    IF S = {} THEN 0 ELSE CHOOSE i \in S : \A j \in S : j <= i

RECURSIVE skip_leading_dots(_, _, _)
\* the while loop of genericpath._splitext: the extension starts at dotIndex
\* unless only dots lie between the last separator and dotIndex
skip_leading_dots(p, filenameIndex, dotIndex) ==
    IF filenameIndex < dotIndex
    THEN IF p[filenameIndex] /= "."
         THEN SubSeq(p, dotIndex, Len(p))
         ELSE skip_leading_dots(p, filenameIndex + 1, dotIndex)
    ELSE << >>

\* os.path.splitext(p)[1]
splitext_ext(p) ==
    LET sepIndex == rfind(p, "/")
        dotIndex == rfind(p, ".")
    IN  IF dotIndex > sepIndex
        THEN skip_leading_dots(p, sepIndex + 1, dotIndex)
        ELSE << >>

text_extensions ==
    << <<".", "t", "x", "t">>, <<".", "m", "d">>, <<".", "j", "s">>,
       <<".", "p", "y">>, <<".", "c", "s">>, <<".", "g", "o">>,
       <<".", "h", "t", "m", "l">>, <<".", "c", "s", "s">>,
       <<".", "x", "m", "l">>, <<".", "j", "s", "o", "n">> >>

pdf_extension == <<".", "p", "d", "f">>

InList(x, l) == \E i \in 1..Len(l) : l[i] = x

IsCont(b) == b >= 128 /\ b <= 191

RECURSIVE utf8_decode(_, _, _)
\* bytes.decode("utf-8"), strict: Some(code points) or None when it raises
utf8_decode(b, i, acc) ==
    IF i > Len(b) THEN Some(acc)
    ELSE LET b0 == b[i]
             has(k) == i + k <= Len(b)
         IN
         IF b0 < 128 THEN utf8_decode(b, i + 1, Append(acc, b0))
         ELSE IF b0 >= 194 /\ b0 <= 223
         THEN IF has(1) /\ IsCont(b[i + 1])
              THEN utf8_decode(b, i + 2,
                       Append(acc, (b0 - 192) * 64 + (b[i + 1] - 128)))
              ELSE None
         ELSE IF b0 >= 224 /\ b0 <= 239
         THEN IF /\ has(2)
                 /\ IsCont(b[i + 1])
                 /\ IsCont(b[i + 2])
                 /\ (b0 = 224 => b[i + 1] >= 160)
                 /\ (b0 = 237 => b[i + 1] <= 159)
              THEN utf8_decode(b, i + 3,
                       Append(acc, (b0 - 224) * 4096 + (b[i + 1] - 128) * 64
                                   + (b[i + 2] - 128)))
              ELSE None
         ELSE IF b0 >= 240 /\ b0 <= 244
         THEN IF /\ has(3)
                 /\ IsCont(b[i + 1])
                 /\ IsCont(b[i + 2])
                 /\ IsCont(b[i + 3])
                 /\ (b0 = 240 => b[i + 1] >= 144)
                 /\ (b0 = 244 => b[i + 1] <= 143)
              THEN utf8_decode(b, i + 4,
                       Append(acc, (b0 - 240) * 262144
                                   + (b[i + 1] - 128) * 4096
                                   + (b[i + 2] - 128) * 64
                                   + (b[i + 3] - 128)))
              ELSE None
         ELSE None

RECURSIVE extract_pages_partial(_, _, _)
\* the page loop returning the text read so far when a page fails
extract_pages_partial(pages, page_num, text) ==
    IF page_num > Len(pages) THEN Some(text)
    ELSE IF pages[page_num] = None
    THEN Some(text)
    ELSE extract_pages_partial(pages, page_num + 1,
                               text \o pages[page_num][1])

RECURSIVE extract_pages(_, _, _)
\* for page_num in range(len(pdf_reader.pages)): text += page.extract_text()
\* pages[k] is None when extract_text raises on page k, else Some(its text);
\* the result is None when the loop is left by an exception
extract_pages(pages, page_num, text) ==
    IF page_num > Len(pages) THEN Some(text)
    ELSE IF pages[page_num] = None
    THEN None
    ELSE extract_pages(pages, page_num + 1, text \o pages[page_num][1])

\* read_document_content(uploaded_file): text is the returned value (None or
\* Some(string)), reports the st.error / st.warning messages shown
read_document_content(uploaded) ==
    LET file_extension == lower(splitext_ext(uploaded.name)) IN
    IF InList(file_extension, text_extensions)
    THEN LET d == utf8_decode(uploaded.bytes, 1, << >>) IN
         IF d /= None THEN [text |-> d, reports |-> << >>]
         ELSE [text |-> None, reports |-> <<"error reading text">>]
    ELSE IF file_extension = pdf_extension
    THEN LET t == IF uploaded.pdf.parses
                  THEN extract_pages(uploaded.pdf.pages, 1, << >>)
                  ELSE None
         IN IF t /= None THEN [text |-> t, reports |-> << >>]
            ELSE [text |-> None, reports |-> <<"error reading pdf">>]
    ELSE [text |-> None, reports |-> <<"warning unsupported file type">>]

\* ------------------------------------------------------------------------
\* Presentation layer: inputs
\* ------------------------------------------------------------------------
\* "Analyze this document and produce an accurate and concise summary:\n\n"
SummaryUserPrefix ==
    <<65, 110, 97, 108, 121, 122, 101, 32, 116, 104, 105, 115, 32,
      100, 111, 99, 117, 109, 101, 110, 116, 32, 97, 110, 100, 32,
      112, 114, 111, 100, 117, 99, 101, 32, 97, 110, 32, 97, 99, 99,
      117, 114, 97, 116, 101, 32, 97, 110, 100, 32, 99, 111, 110, 99,
      105, 115, 101, 32, 115, 117, 109, 109, 97, 114, 121, 58, 10,
      10>>

\* "You are a document summarization expert. Please provide a concise and
\* accurate summary of the document."
SummarySystemPrompt ==
    <<89, 111, 117, 32, 97, 114, 101, 32, 97, 32, 100, 111, 99, 117,
      109, 101, 110, 116, 32, 115, 117, 109, 109, 97, 114, 105, 122,
      97, 116, 105, 111, 110, 32, 101, 120, 112, 101, 114, 116, 46,
      32, 80, 108, 101, 97, 115, 101, 32, 112, 114, 111, 118, 105,
      100, 101, 32, 97, 32, 99, 111, 110, 99, 105, 115, 101, 32, 97,
      110, 100, 32, 97, 99, 99, 117, 114, 97, 116, 101, 32, 115, 117,
      109, 109, 97, 114, 121, 32, 111, 102, 32, 116, 104, 101, 32,
      100, 111, 99, 117, 109, 101, 110, 116, 46>>

\* user prompts typed in the Query tab: "" and "hi"
UserPrompts == {<< >>, <<104, 105>>}

\* system prompts of the Query tab: cleared, or "Be brief"
SystemPrompts == {<< >>, <<66, 101>>}

Tabs == {"Query", "Document Summary"}

\* file names, as character sequences
FileNames ==
    { <<"n", ".", "t", "x", "t">>, <<"N", ".", "T", "X", "T">>,
      <<".", "t", "x", "t">>, <<"a", ".", "b", ".", "m", "d">>,
      <<"r", ".", "p", "d", "f">>, <<"R", ".", "P", "d", "F">>,
      <<"i", ".", "p", "n", "g">>, <<"t", "x", "t">>, <<"a", ".">>,
      <<".", ".", "p", "y">>, <<"d", ".", "m", "d", "/", "f">>,
      <<"p", "d", "f", ".", "M", "d">>, <<"a", ".", "t", "x", "t", ".", "p", "d", "f">> }

\* bytes of the modelled files: 'A', the two bytes of U+00E9 (C3 A9) and
\* the lead byte E2 of a three byte sequence
ByteVals == {65, 195, 169, 226}

\* what extract_text yields on a page: raises (None) or a text
PageTexts == {None, Some(<< >>), Some(<<65>>), Some(<<66, 67>>)}

\* PyPDF2's view of a file: PdfReader raises, or a list of pages
NoPdf == [parses |-> FALSE, pages |-> << >>]

PdfViews(n) == {NoPdf} \cup [parses : {TRUE}, pages : SeqsUpTo(PageTexts, n)]

\* uploaded files with texts of at most nb bytes and pdfs of at most np pages
FilesUpTo(nb, np) ==
    [name : FileNames, bytes : SeqsUpTo(ByteVals, nb), pdf : {NoPdf}]
    \cup [name : FileNames, bytes : {<<65>>, <<169>>}, pdf : PdfViews(np)]

\* the files of the main specification
SmallFiles ==
    { [name |-> <<"n", ".", "t", "x", "t">>, bytes |-> <<65>>, pdf |-> NoPdf],
      [name |-> <<"n", ".", "t", "x", "t">>, bytes |-> <<169>>, pdf |-> NoPdf],
      [name |-> <<"r", ".", "p", "d", "f">>, bytes |-> <<65>>,
       pdf |-> [parses |-> TRUE, pages |-> <<Some(<<65>>), Some(<<66, 67>>)>>]],
      [name |-> <<"i", ".", "p", "n", "g">>, bytes |-> <<65>>, pdf |-> NoPdf] }

\* ------------------------------------------------------------------------
\* Presentation layer: one script run per user interaction
\* ------------------------------------------------------------------------
Snapshot ==
    [host |-> ollama_host, model |-> ollama_model, client |-> ollama_client,
     status |-> connection_status, config |-> last_successful_config]

NoStream == [chunks |-> << >>, end |-> None]

\* the observation of a run in which nothing was called
IdleRun(name) ==
    [action |-> name, pre |-> Snapshot, attempted |-> run.attempted,
     host |-> "", model |-> "", show |-> None,
     user_prompt |-> << >>, system_prompt |-> << >>, stream |-> NoStream,
     file |-> None,
     success |-> FALSE, error |-> None, calls |-> << >>, surfaced |-> << >>,
     reports |-> << >>, raised |-> FALSE]

\* The main content area below the sidebar, for the tab, the client handle
\* and the uploader's value of this run: the uploader's value kept (a widget
\* that is not rendered loses its value), the document read, the messages.
MainArea(tab, client, file) ==
    IF client = None
    THEN [file |-> None, content |-> None,
          reports |-> <<"warning connect first">>]
    ELSE IF tab = "Query"
    THEN [file |-> None, content |-> None, reports |-> << >>]
    ELSE IF file = None
    THEN [file |-> None, content |-> None, reports |-> <<"info upload">>]
    ELSE LET d == read_document_content(file[1]) IN
         [file |-> file, content |-> d.text, reports |-> d.reports]

\* if document_content: (None and "" are both falsy)
Truthy(content) == content /= None /\ content[1] /= << >>

Init ==
    /\ ollama_host = DefaultHost
    /\ ollama_model = DefaultModel
    /\ ollama_client = None
    /\ connection_status = <<"Not Connected">>
    /\ last_successful_config = None
    /\ tab_selection = "Query"
    /\ uploaded_file = None
    /\ document_content = None
    /\ clients_created = 0
    /\ run = [action |-> "Start",
              pre |-> [host |-> DefaultHost, model |-> DefaultModel,
                       client |-> None, status |-> <<"Not Connected">>,
                       config |-> None],
              attempted |-> FALSE,
              host |-> "", model |-> "", show |-> None,
              user_prompt |-> << >>, system_prompt |-> << >>,
              stream |-> NoStream, file |-> None,
              success |-> FALSE, error |-> None, calls |-> << >>,
              surfaced |-> << >>, reports |-> << >>, raised |-> FALSE]

\* The Connect button: lines 148-151, then the rest of the script.
ClickConnect(new_host, new_model, show) ==
    /\ clients_created + 2 <= MaxClients
    /\ LET c == update_connection(new_host, new_model, show, ollama_client,
                                  last_successful_config, connection_status,
                                  clients_created)
           m == IF c.raised
                THEN [file |-> uploaded_file, content |-> None,
                      reports |-> << >>]
                ELSE MainArea(tab_selection, c.client, uploaded_file)
       IN  /\ ollama_host' = new_host
           /\ ollama_model' = new_model
           /\ ollama_client' = c.client
           /\ connection_status' = c.status
           /\ last_successful_config' = c.config
           /\ clients_created' = c.created
           /\ uploaded_file' = m.file
           /\ document_content' = m.content
           /\ run' = [IdleRun("Connect") EXCEPT
                        !.attempted = TRUE,
                        !.host = new_host, !.model = new_model,
                        !.show = IF ClientRaises(new_host) THEN None ELSE show,
                        !.success = c.success, !.error = c.error,
                        !.calls = c.calls, !.reports = m.reports,
                        !.raised = c.raised]
    /\ UNCHANGED tab_selection

\* The Generate Response button of the Query tab: lines 168-191.
ClickGenerateResponse(user_prompt, system_prompt, stream, show) ==
    /\ tab_selection = "Query"
    /\ ollama_client /= None
    /\ clients_created + 2 <= MaxClients
    /\ LET g == generate_ollama_response(user_prompt, system_prompt, stream,
                    show, ollama_host, ollama_model, ollama_client,
                    last_successful_config, connection_status,
                    clients_created)
       IN  /\ ollama_client' = g.conn.client
           /\ connection_status' = g.conn.status
           /\ last_successful_config' = g.conn.config
           /\ clients_created' = g.conn.created
           /\ run' = [IdleRun("GenerateResponse") EXCEPT
                        !.user_prompt = user_prompt,
                        !.system_prompt = system_prompt,
                        !.stream = IF user_prompt = << >> THEN NoStream
                                   ELSE stream,
                        !.show = IF g.reconnects = 0 THEN None ELSE show,
                        !.success = g.conn.success, !.error = g.conn.error,
                        !.calls = g.calls, !.surfaced = g.surfaced,
                        !.reports = g.reports, !.raised = g.conn.raised]
    /\ uploaded_file' = None
    /\ document_content' = None
    /\ UNCHANGED <<ollama_host, ollama_model, tab_selection>>

\* The Generate Summary button of the Document Summary tab: lines 193-218.
ClickGenerateSummary(stream, show) ==
    /\ tab_selection = "Document Summary"
    /\ ollama_client /= None
    /\ uploaded_file /= None
    /\ clients_created + 2 <= MaxClients
    /\ LET m == MainArea(tab_selection, ollama_client, uploaded_file) IN
       /\ Truthy(m.content)
       /\ LET user_prompt == SummaryUserPrefix \o m.content[1]
              g == generate_ollama_response(user_prompt, SummarySystemPrompt,
                       stream, show, ollama_host, ollama_model, ollama_client,
                       last_successful_config, connection_status,
                       clients_created)
          IN  /\ ollama_client' = g.conn.client
              /\ connection_status' = g.conn.status
              /\ last_successful_config' = g.conn.config
              /\ clients_created' = g.conn.created
              /\ document_content' = m.content
              /\ run' = [IdleRun("GenerateSummary") EXCEPT
                           !.user_prompt = user_prompt,
                           !.system_prompt = SummarySystemPrompt,
                           !.stream = stream,
                           !.show = IF g.reconnects = 0 THEN None ELSE show,
                           !.file = uploaded_file,
                           !.success = g.conn.success, !.error = g.conn.error,
                           !.calls = g.calls, !.surfaced = g.surfaced,
                           !.reports = m.reports \o g.reports,
                           !.raised = g.conn.raised]
    /\ UNCHANGED <<ollama_host, ollama_model, tab_selection, uploaded_file>>

\* A file dropped on the uploader of the Document Summary tab: lines 199-215.
UploadFile(f) ==
    /\ tab_selection = "Document Summary"
    /\ ollama_client /= None
    /\ LET m == MainArea(tab_selection, ollama_client, Some(f)) IN
       /\ uploaded_file' = m.file
       /\ document_content' = m.content
       /\ run' = [IdleRun("Upload") EXCEPT
                    !.file = Some(f), !.reports = m.reports]
    /\ UNCHANGED <<session, tab_selection, clients_created>>

\* The radio "Functions": lines 159-163, then the main area of the new tab.
SelectTab(t) ==
    /\ t /= tab_selection
    /\ tab_selection' = t
    /\ LET m == MainArea(t, ollama_client, None) IN
       /\ uploaded_file' = m.file
       /\ document_content' = m.content
       /\ run' = [IdleRun("SelectTab") EXCEPT !.reports = m.reports]
    /\ UNCHANGED <<session, clients_created>>

\* the inputs of the three specifications
SmallStreams == StreamsUpTo(1)

AllStreams == StreamsUpTo(MaxChunks)

AllFiles == FilesUpTo(MaxBytes, MaxPages)

\* ------------------------------------------------------------------------
\* Specifications
\* ------------------------------------------------------------------------
Connect ==
    \E new_host \in Hosts, new_model \in Models, show \in ShowResults :
        ClickConnect(new_host, new_model, show)

GenerateResponse ==
    \E user_prompt \in UserPrompts, system_prompt \in SystemPrompts,
       stream \in SmallStreams, show \in ShowResults :
        ClickGenerateResponse(user_prompt, system_prompt, stream, show)

GenerateSummary ==
    \E stream \in SmallStreams, show \in ShowResults :
        ClickGenerateSummary(stream, show)

Upload == \E f \in SmallFiles : UploadFile(f)

Select == \E t \in Tabs : SelectTab(t)

Next == Connect \/ GenerateResponse \/ GenerateSummary \/ Upload \/ Select

Spec == Init /\ [][Next]_vars

\* the streaming specification: every stream of at most MaxChunks chunks
ConnectDefault == ClickConnect(DefaultHost, DefaultModel, None)

\* (one generation after each connect)
GenerateStream ==
    /\ run.action = "Connect"
    /\ \E stream \in AllStreams, show \in ShowResults :
          ClickGenerateResponse(<<104, 105>>, << >>, stream, show)

NextStream == ConnectDefault \/ GenerateStream

SpecStream == Init /\ [][NextStream]_vars

\* the document specification: every file of FilesUpTo(MaxBytes, MaxPages)
\* (one upload per visit of the tab)
UploadAny == uploaded_file = None /\ \E f \in AllFiles : UploadFile(f)

NextDoc == ConnectDefault \/ Select \/ UploadAny

SpecDoc == Init /\ [][NextDoc]_vars

\* ------------------------------------------------------------------------
\* Properties
\* ------------------------------------------------------------------------
IsGenerate == run.action \in {"GenerateResponse", "GenerateSummary"}

CallsOf(op) == {i \in 1..Len(run.calls) : run.calls[i].op = op}

Connected == <<"Connected">>

\* the last run opened a stream that raised
StreamFailed == IsGenerate /\ run.user_prompt /= << >> /\ run.stream.end /= None

\* C1: a generate request is sent only when, at the time of the run, the
\* status is Connected, a client handle is stored (the request goes through
\* that handle) and the user prompt is non-empty, on both paths.
C1_RequestOnlyWhenConnected ==
    \A i \in CallsOf("generate") :
        /\ run.pre.status = Connected
        /\ run.pre.client /= None
        /\ run.calls[i].client = run.pre.client[1].id
        /\ run.calls[i].host = run.pre.client[1].host
        /\ run.calls[i].prompt /= << >>
        /\ IsGenerate

C1_Witness ==
    /\ run.action = "GenerateSummary"
    /\ CallsOf("generate") /= {}
    /\ run.pre.status = Connected

\* C2: a connect with a reachable host and a succeeding model query returns
\* success, and ends Connected with a fresh client handle and the given
\* host and model stored, whatever the state before.
C2_ConnectSuccess ==
    (run.action = "Connect" /\ ~ClientRaises(run.host) /\ run.show = None) =>
        /\ run.success
        /\ run.error = None
        /\ connection_status = Connected
        /\ ollama_client /= None
        /\ ollama_client /= run.pre.client
        /\ ollama_client[1].id = clients_created
        /\ ollama_client[1].host = run.host
        /\ ollama_host = run.host
        /\ ollama_model = run.model
        /\ last_successful_config =
               Some([host |-> run.host, model |-> run.model])

C2_Witness ==
    /\ run.action = "Connect"
    /\ run.success
    /\ run.pre.client /= None
    /\ run.pre.host /= ollama_host
    /\ connection_status = Connected

\* C3: a connect whose reachability check or model query fails returns
\* failure with a non-empty message, leaves no client handle, sets the
\* status to the failure message, and keeps the host and model of the
\* failed attempt, also when the session was Connected before.
C3_ConnectFailure ==
    (run.action = "Connect" /\ (ClientRaises(run.host) \/ run.show /= None)) =>
        /\ ~run.success
        /\ run.error /= None
        /\ Len(run.error[1]) > 0
        /\ ollama_client = None
        /\ connection_status = <<"Connection Failed: ">> \o run.error[1]
        /\ connection_status /= Connected
        /\ ollama_host = run.host
        /\ ollama_model = run.model

C3_Witness ==
    /\ run.action = "Connect"
    /\ run.show = Some(<< >>)
    /\ run.pre.status = Connected
    /\ ollama_client = None
    /\ ollama_host /= run.pre.host

\* C4: a stream that raises is reported and followed by exactly one
\* reconnect attempt with the configuration the failing client was connected
\* under; the generate request is sent once; the reconnect's outcome sets
\* the state as a connect does.
C4_OneReconnect ==
    StreamFailed =>
        /\ \E k \in 1..Len(run.reports) : run.reports[k] = "error generating"
        /\ Cardinality(CallsOf("generate")) = 1
        /\ run.calls[1].op = "generate"
        /\ Cardinality(CallsOf("show")) = 1
        /\ \A i \in CallsOf("show") :
              /\ run.calls[i].host = run.pre.client[1].host
              /\ run.pre.config = Some([host |-> run.calls[i].host,
                                        model |-> run.calls[i].model])
        /\ ollama_host = run.pre.host /\ ollama_model = run.pre.model
        /\ run.show = None =>
              /\ connection_status = Connected
              /\ ollama_client /= None
              /\ ollama_client /= run.pre.client
              /\ ollama_client[1].host = run.pre.client[1].host
        /\ run.show /= None =>
              /\ ollama_client = None
              /\ connection_status =
                     <<"Connection Failed: ", "Unexpected error: ">>
                         \o run.show[1]

C4_Witness ==
    /\ StreamFailed
    /\ run.show /= None
    /\ ollama_client = None
    /\ run.pre.host /= DefaultHost

\* C5: a generate with an empty user prompt issues no library call at all
\* and leaves the connection state, client handle and configuration alone.
C5_EmptyPromptRejected ==
    (IsGenerate /\ run.user_prompt = << >>) =>
        /\ run.calls = << >>
        /\ run.surfaced = << >>
        /\ Snapshot = run.pre

C5_Witness ==
    /\ run.action = "GenerateResponse"
    /\ run.user_prompt = << >>
    /\ run.reports = <<"warning enter a prompt">>
    /\ connection_status = Connected

RECURSIVE ConcatResponses(_, _)
\* the response texts of the first k chunks of R, concatenated
ConcatResponses(R, k) ==
    IF k = 0 THEN << >> ELSE ConcatResponses(R, k - 1) \o R[k].response

IsPrefix(a, b) == Len(a) <= Len(b) /\ SubSeq(b, 1, Len(a)) = a

\* C6: the k-th surfaced value is the concatenation of the response texts of
\* the first k chunks that carry a response field; other chunks surface
\* nothing; each surfaced value is a prefix of the next.
C6_AccumulatedText ==
    (IsGenerate /\ run.user_prompt /= << >>) =>
        LET R == SelectSeq(run.stream.chunks, LAMBDA c : c.has) IN
        /\ Len(run.surfaced) = Len(R)
        /\ \A k \in 1..Len(R) : run.surfaced[k] = ConcatResponses(R, k)
        /\ \A k \in 1..(Len(run.surfaced) - 1) :
              IsPrefix(run.surfaced[k], run.surfaced[k + 1])

C6_Witness ==
    /\ IsGenerate
    /\ run.stream.chunks = <<Resp(<<"H">>), NoResponse, Resp(<<"e", "l">>)>>
    /\ run.surfaced = << <<"H">>, <<"H", "e", "l">> >>

\* C7: no error of the server or the client library leaves a connect, a
\* generation or the reconnect after a failed generation.
C7_NoErrorPropagates == ~run.raised

C7_Witness ==
    /\ StreamFailed
    /\ run.show = Some(<<"model not found">>)
    /\ ~run.raised
    /\ connection_status =
           <<"Connection Failed: ", "Unexpected error: ", "model not found">>

\* the extensions of the plain-text allow-list, without the dot
AllowList ==
    { <<"t", "x", "t">>, <<"m", "d">>, <<"j", "s">>, <<"p", "y">>,
      <<"c", "s">>, <<"g", "o">>, <<"h", "t", "m", "l">>, <<"c", "s", "s">>,
      <<"x", "m", "l">>, <<"j", "s", "o", "n">> }

\* e is the extension of name: what follows the last dot, when that dot
\* comes after the last separator and after a character of the base name
\* that is not a dot
HasExtension(name, e) ==
    \E d \in 1..Len(name) :
        /\ name[d] = "."
        /\ SubSeq(name, d + 1, Len(name)) = e
        /\ \A j \in (d + 1)..Len(name) : name[j] \notin {".", "/"}
        /\ \E j \in 1..(d - 1) :
              /\ name[j] /= "."
              /\ \A l \in j..d : name[l] /= "/"

\* name has the extension e up to the case of its letters
HasExtensionNoCase(name, e) ==
    \E x \in {SubSeq(name, d, Len(name)) : d \in 1..(Len(name) + 1)} :
        HasExtension(name, x) /\ lower(x) = e

\* the UTF-8 encoding of one code point
Utf8EncodeOne(cp) ==
    IF cp < 128 THEN <<cp>>
    ELSE IF cp < 2048 THEN <<192 + (cp \div 64), 128 + (cp % 64)>>
    ELSE IF cp < 65536
    THEN <<224 + (cp \div 4096), 128 + ((cp \div 64) % 64), 128 + (cp % 64)>>
    ELSE <<240 + (cp \div 262144), 128 + ((cp \div 4096) % 64),
           128 + ((cp \div 64) % 64), 128 + (cp % 64)>>

RECURSIVE Utf8Encode(_)
Utf8Encode(t) ==
    IF t = << >> THEN << >> ELSE Utf8EncodeOne(Head(t)) \o Utf8Encode(Tail(t))

\* the code points whose encodings are made of ByteVals: A, U+00E9, U+2A69
CodePoints == {65, 233, 10857}

\* the texts of at most MaxBytes bytes over CodePoints
Texts == SeqsUpTo(CodePoints, MaxBytes)

IsUtf8(bytes) == \E t \in Texts : Utf8Encode(t) = bytes

RECURSIVE PagesLen(_, _)
\* the length of the first k page texts together
PagesLen(pages, k) ==
    IF k = 0 THEN 0 ELSE PagesLen(pages, k - 1) + Len(pages[k][1])

\* text is the page texts one after the other, nothing in between
IsPagesInOrder(text, pages) ==
    /\ Len(text) = PagesLen(pages, Len(pages))
    /\ \A k \in 1..Len(pages) :
          SubSeq(text, PagesLen(pages, k - 1) + 1, PagesLen(pages, k))
              = pages[k][1]

\* C8: readDocument returns text exactly for an allow-listed extension with
\* valid UTF-8 bytes (the decoded string) and for a pdf whose parse and
\* pages all succeed (the page texts in page order, no separators); every
\* other case reports and returns no text.
C8_ReadDocument ==
    run.action = "Upload" =>
        LET f == run.file[1]
            textCase == /\ \E e \in AllowList : HasExtensionNoCase(f.name, e)
                        /\ IsUtf8(f.bytes)
            pdfCase == /\ HasExtensionNoCase(f.name, <<"p", "d", "f">>)
                       /\ f.pdf.parses
                       /\ \A k \in 1..Len(f.pdf.pages) : f.pdf.pages[k] /= None
        IN  /\ textCase =>
                /\ document_content /= None
                /\ Utf8Encode(document_content[1]) = f.bytes
                /\ run.reports = << >>
            /\ pdfCase =>
                /\ document_content /= None
                /\ IsPagesInOrder(document_content[1], f.pdf.pages)
                /\ run.reports = << >>
            /\ (~textCase /\ ~pdfCase) =>
                /\ document_content = None
                /\ Len(run.reports) = 1

C8_Witness ==
    /\ run.action = "Upload"
    /\ run.file[1].name = <<"R", ".", "P", "d", "F">>
    /\ run.file[1].pdf.pages = <<Some(<<65>>), Some(<<66, 67>>)>>
    /\ document_content = Some(<<65, 66, 67>>)

\* C9: the connection state, client handle and configuration change only
\* in a connect or in a generation whose stream raised.
C9_FrameOfSession ==
    Snapshot /= run.pre => (run.action = "Connect" \/ StreamFailed)

C9_Witness ==
    /\ run.action = "Upload"
    /\ document_content = None
    /\ run.reports = <<"error reading text">>
    /\ Snapshot = run.pre
    /\ connection_status = Connected

\* C10: a client handle is stored iff the status is "Connected"; when
\* Connected the last successful configuration is the stored host and
\* model; once a connect was attempted the status is never "Not Connected".
C10_HandleIffConnected ==
    /\ (ollama_client /= None) <=> (connection_status = Connected)
    /\ connection_status = Connected =>
          last_successful_config =
              Some([host |-> ollama_host, model |-> ollama_model])
    /\ run.attempted => connection_status /= <<"Not Connected">>
    /\ ~run.attempted => connection_status = <<"Not Connected">>

C10_Witness ==
    /\ run.attempted
    /\ ollama_client = None
    /\ last_successful_config /= None
    /\ last_successful_config /=
           Some([host |-> ollama_host, model |-> ollama_model])
    /\ run.action = "SelectTab"

====
